---- MODULE Spec2Model ----
(***************************************************************************)
(* Model of data/tiger/load-with-python.py: the orchestration loop of the  *)
(* TIGER loader (file resolution, CRS normalisation, replace/append write  *)
(* modes, success/failure counting, summary).                              *)
(*                                                                         *)
(* The geospatial library and the database are the environment: what a     *)
(* read returns (its declared CRS), which companion files are on disk,     *)
(* and whether a read, a reprojection or a write raises, are inputs drawn  *)
(* at the step that performs them.  A to_postgis call that raises leaves   *)
(* the target table as it was (the call runs in one transaction).          *)
(*                                                                         *)
(* The model starts at line 96, after the engine has been created.  The    *)
(* branch of lines 56-57 is not modelled apart from the read: read_file    *)
(* names the geometry column 'geometry', and were the branch taken its     *)
(* call would raise inside the try block, which is the outcome "read".     *)
(***************************************************************************)
EXTENDS Integers, Sequences, FiniteSets, TLC

\* ------------------------------------------------------------------ bounds
\* Largest number of per-state places files the glob may find.
MaxPlaces == 3
\* Number of times main() is invoked in the re-run specification.
MaxRuns == 2

\* --------------------------------------------------------------- constants
WGS84 == "EPSG:4326"
NAD83 == "EPSG:4269"
NoCrs == "None"
\* Declared CRS a read may return: none, WGS84, or another one.
CrsValues == {NoCrs, WGS84, NAD83}

\* files_to_load (filename stem, table_name); the geoid_field is unused.
files_to_load ==
    << [stem |-> "tl_2024_us_state",   table |-> "tiger_states"],
       [stem |-> "tl_2024_us_county",  table |-> "tiger_counties"],
       [stem |-> "tl_2024_us_cbsa",    table |-> "tiger_cbsa"],
       [stem |-> "tl_2024_us_zcta520", table |-> "tiger_zcta"] >>

PlacesTable == "tiger_places"
NationalTables == {files_to_load[i].table : i \in DOMAIN files_to_load}
TableNames == NationalTables \cup {PlacesTable}

Extensions == {"shp", "geojson"}
Companions == {"shx", "dbf"}

\* A file on disk: name stem, state number (0 for a national file), extension.
File(stem, n, ext) == [stem |-> stem, n |-> n, ext |-> ext]
\* The k-th element of sorted(tiger_dir.glob("tl_2024_*_place.shp")).
PlaceFile(k) == File("tl_2024_place", k, "shp")
\* Records a table held before the loader ever ran.
OldData == File("previous", 0, "none")

\* len(gdf) of a file: fixed per file; files of different kinds differ.
RecordCount(f) ==
    IF f = OldData THEN 7
    ELSE IF f.ext = "geojson" THEN 3
    ELSE IF f.n = 0 THEN 2
    ELSE f.n

RECURSIVE SumCounts(_)
SumCounts(s) == IF s = <<>> THEN 0 ELSE RecordCount(Head(s)) + SumCounts(Tail(s))

\* Number of records a table holds.
TableCount(t) == SumCounts(t)

VARIABLES
    pc,          \* position in main(): "national", "places", "append", "summary", "done"
    idx,         \* index of the next files_to_load entry / next place_files index
    loaded,      \* main's success counter
    failed,      \* main's failure counter
    place_files, \* len(place_files) once the glob has run
    disk,        \* the answers the directory may give to exists() and glob()
    reliable,    \* TRUE when no read, reprojection or write ever raises
    tables,      \* database: table name -> sequence of files whose records it holds
    writesTo,    \* per table, the modes of the to_postgis calls issued in this run
    attempted,   \* entries and places files the loops have reached in this run
    okWrites,    \* number of to_postgis calls of this run that returned normally
    succeeded,   \* the slots of this run that were counted in loaded
    seen,        \* what the last iteration found on disk for its entry
    lastOp,      \* what the last loop iteration did
    printed,     \* the summary printed, or NoSummary
    run,         \* number of the current invocation of main()
    firstRun     \* the tables as the first invocation left them

vars == <<pc, idx, loaded, failed, place_files, disk, reliable, tables, writesTo,
          attempted, okWrites, succeeded, seen, lastOp, printed, run, firstRun>>

NoSummary == [loaded |-> -1, failed |-> -1]
NotYet == [finished |-> FALSE, tables |-> [t \in TableNames |-> <<>>]]

\* --------------------------------------------------- load_geographic_file
\* What the environment decides for one file: the companions missing next
\* to it (a GeoJSON has none at all), the CRS the read declares, and the
\* step that raises ("none" when none does).  to_crs runs, and so can
\* raise, only for a declared CRS other than WGS84.
Outcomes(ext, rel) ==
    {o \in [missing : IF ext = "shp" THEN SUBSET Companions ELSE {Companions},
            crs : CrsValues,
            raises : IF rel THEN {"none"} ELSE {"none", "read", "crs", "write"}] :
        /\ o.raises = "crs" => o.crs = NAD83
        /\ o.raises = "read" => o.crs = NoCrs}

\* The companion check runs for .shp inputs only (line 39).
ChecksCompanions(ext) == ext = "shp"

\* A variant that returns False when a companion is missing.
ProceedsOnlyIfComplete(ext, missing) == ~(ext = "shp" /\ missing # {})

\* After the check the function goes on to the try block whatever the
\* check found (lines 46-50: the warning is printed, nothing returns).
Proceeds(ext, missing) == TRUE

\* CRS step of load_geographic_file (lines 60-63).
LoadCrsStep(crs) ==
    IF crs = NoCrs THEN "set_crs"
    ELSE IF crs # WGS84 THEN "to_crs"
    ELSE "unchanged"

\* CRS step of the append loop (lines 148-149).
AppendCrsStep(crs) ==
    IF crs # NoCrs /\ crs # WGS84 THEN "to_crs" ELSE "unchanged"

\* Declared CRS of the dataset after the step.
CrsAfter(crs, step) == IF step \in {"set_crs", "to_crs"} THEN WGS84 ELSE crs

\* Variants with the other mode.
LoadAsAppend == "append"
AppendAsReplace == "replace"

\* if_exists of the two to_postgis calls (lines 69 and 154).
LoadIfExists == "replace"
AppendIfExists == "append"

\* A variant in which replace keeps the rows already there.
ToPostgisKeepsRows(old, f, mode) == Append(old, f)

\* Effect of a to_postgis call that returns normally on the table's contents.
ToPostgis(old, f, mode) == IF mode = "replace" THEN <<f>> ELSE Append(old, f)

\* An iteration, or a call, that reads nothing.
Skipped(kind, f, table, warned) ==
    [ kind |-> kind, file |-> f, table |-> table, checked |-> warned,
      warned |-> warned, read |-> FALSE, srcCrs |-> NoCrs,
      crsStep |-> "none", outCrs |-> NoCrs, wrote |-> FALSE, mode |-> "none",
      raises |-> "none", result |-> FALSE ]

\* The try block: read, CRS step, write; the first step that raises ends it.
TryBlock(kind, f, table, o, checked, step, mode) ==
    [ kind     |-> kind,
      file     |-> f,
      table    |-> table,
      checked  |-> checked,
      warned   |-> checked /\ o.missing # {},
      read     |-> TRUE,
      srcCrs   |-> o.crs,
      crsStep  |-> IF o.raises = "read" THEN "none" ELSE step,
      outCrs   |-> IF o.raises = "read" THEN NoCrs ELSE CrsAfter(o.crs, step),
      wrote    |-> o.raises \in {"none", "write"},
      mode     |-> IF o.raises \in {"none", "write"} THEN mode ELSE "none",
      raises   |-> o.raises,
      result   |-> o.raises = "none" ]

\* load_geographic_file(engine, filepath, table_name): lines 28-79.
load_geographic_file(f, table, o) ==
    IF Proceeds(f.ext, o.missing)
    THEN TryBlock("load", f, table, o, ChecksCompanions(f.ext),
                  LoadCrsStep(o.crs), LoadIfExists)
    ELSE Skipped("load", f, table, TRUE)

\* Body of the append loop: lines 144-162.
append_place_file(f, o) ==
    TryBlock("append", f, PlacesTable, o, FALSE, AppendCrsStep(o.crs), AppendIfExists)

\* The database and the bookkeeping after an iteration that found
\* `present` on disk and did op at slot.
Record(op, slot, present) ==
    /\ lastOp' = op
    /\ seen' = present
    /\ succeeded' = IF op.result THEN succeeded \cup {slot} ELSE succeeded
    /\ attempted' = attempted \cup {slot}
    /\ writesTo' = IF op.wrote
                   THEN [writesTo EXCEPT ![op.table] = Append(@, op.mode)]
                   ELSE writesTo
    /\ tables' = IF op.wrote /\ op.result
                 THEN [tables EXCEPT ![op.table] = ToPostgis(@, op.file, op.mode)]
                 ELSE tables
    /\ okWrites' = IF op.wrote /\ op.result THEN okWrites + 1 ELSE okWrites

\* Counting of one result (lines 113-116, 122-125, 139-140 and 163-164, 159-162).
Count(ok) ==
    /\ loaded' = IF ok THEN loaded + 1 ELSE loaded
    /\ failed' = IF ok THEN failed ELSE failed + 1

\* A variant in which the exception propagates out of main().
CaughtNowhere(next) == "aborted"

\* `except Exception` (lines 77-79, 160-162): the error is printed and
\* control goes on to where it would have gone.
Caught(next) == next

AfterOp(op, next) == IF op.raises # "none" THEN Caught(next) ELSE next

\* ------------------------------------------------------------------ main
\* A variant that looks for the GeoJSON first.
ResolveGeojsonFirst(present) ==
    IF "geojson" \in present THEN "geojson"
    ELSE IF "shp" \in present THEN "shp"
    ELSE "none"

\* A variant that never checks that a file exists.
ResolveUnchecked(present) ==
    IF "geojson" \in present /\ "shp" \notin present THEN "geojson" ELSE "shp"

\* File resolution of the national loop (lines 111-128).
Resolve(present) ==
    IF "shp" \in present THEN "shp"
    ELSE IF "geojson" \in present THEN "geojson"
    ELSE "none"

\* Indices of place_files the places phase goes on to after the first
\* file (lines 139-164): the rest when it loaded, none when it did not.
Remaining(firstOk, n) == IF firstOk THEN 2 .. n ELSE {}

NationalSlot(i) == <<"national", i>>
PlaceSlot(k) == <<"place", k>>

\* Any directory: every exists() and the glob may answer anything.
AnyDisk ==
    [national |-> [i \in DOMAIN files_to_load |-> SUBSET Extensions],
     places |-> 0 .. MaxPlaces]

\* The directories whose contents are fixed.
FixedDisks ==
    {[national |-> [i \in DOMAIN files_to_load |-> {d.national[i]}],
      places |-> {d.places}] :
        d \in [national : [DOMAIN files_to_load -> SUBSET Extensions],
               places : 0 .. MaxPlaces]}

\* The locals of main() at line 98, nothing loaded yet.
Start ==
    /\ pc = "national"
    /\ idx = 1
    /\ loaded = 0
    /\ failed = 0
    /\ place_files = 0
    /\ writesTo = [t \in TableNames |-> <<>>]
    /\ attempted = {}
    /\ okWrites = 0
    /\ succeeded = {}
    /\ seen = {}
    /\ lastOp = Skipped("start", OldData, "none", FALSE)
    /\ printed = NoSummary
    /\ run = 1
    /\ firstRun = NotYet

Init ==
    /\ Start
    /\ disk = AnyDisk
    /\ reliable = FALSE
    /\ tables \in {[t \in TableNames |-> <<>>], [t \in TableNames |-> <<OldData>>]}

\* The same directory for every run, and an environment that raises nothing.
InitRerun ==
    /\ Start
    /\ disk \in FixedDisks
    /\ reliable = TRUE
    /\ tables = [t \in TableNames |-> <<OldData>>]

\* One iteration of `for filename, table_name, geoid_field in files_to_load`.
LoadNational ==
    /\ pc = "national"
    /\ \E present \in disk.national[idx] :
         LET e == files_to_load[idx]
             ext == Resolve(present)
             next == IF idx < Len(files_to_load) THEN "national" ELSE "places"
         IN  IF ext = "none"
             THEN /\ Record(Skipped("missing", OldData, e.table, FALSE),
                         NationalSlot(idx), present)
                  /\ Count(FALSE)
                  /\ pc' = next
             ELSE \E o \in Outcomes(ext, reliable) :
                    LET op == load_geographic_file(File(e.stem, 0, ext), e.table, o)
                    IN  /\ Record(op, NationalSlot(idx), present)
                        /\ Count(op.result)
                        /\ pc' = AfterOp(op, next)
    /\ idx' = IF idx < Len(files_to_load) THEN idx + 1 ELSE 1
    /\ UNCHANGED <<place_files, disk, reliable, printed, run, firstRun>>

\* The glob finds nothing: `if place_files:` is false.
NoPlaces ==
    /\ pc = "places"
    /\ 0 \in disk.places
    /\ place_files' = 0
    /\ pc' = "summary"
    /\ lastOp' = Skipped("noplaces", OldData, PlacesTable, FALSE)
    /\ seen' = {}
    /\ UNCHANGED <<idx, loaded, failed, disk, reliable, tables, writesTo, attempted,
                   okWrites, succeeded, printed, run, firstRun>>

\* The glob finds n files; place_files[0] goes through
\* load_geographic_file (lines 133-140, 163-164).
LoadFirstPlace ==
    /\ pc = "places"
    /\ \E n \in disk.places \ {0} :
         \E o \in Outcomes("shp", reliable) :
           LET op == load_geographic_file(PlaceFile(1), PlacesTable, o)
           IN  /\ place_files' = n
               /\ Record(op, PlaceSlot(1), {"shp"})
               /\ Count(op.result)
               /\ pc' = AfterOp(op, IF Remaining(op.result, n) # {}
                                    THEN "append" ELSE "summary")
    /\ idx' = 2
    /\ UNCHANGED <<disk, reliable, printed, run, firstRun>>

\* One iteration of `for place_file in place_files[1:]`.
AppendPlace ==
    /\ pc = "append"
    /\ \E o \in Outcomes("shp", reliable) :
         LET op == append_place_file(PlaceFile(idx), o)
         IN  /\ Record(op, PlaceSlot(idx), {"shp"})
             /\ Count(op.result)
             /\ pc' = AfterOp(op, IF idx < place_files THEN "append" ELSE "summary")
    /\ idx' = idx + 1
    /\ UNCHANGED <<place_files, disk, reliable, printed, run, firstRun>>

\* The summary (lines 166-176).
Summary ==
    /\ pc = "summary"
    /\ printed' = [loaded |-> loaded, failed |-> failed]
    /\ pc' = "done"
    /\ firstRun' = IF run = 1 THEN [finished |-> TRUE, tables |-> tables] ELSE firstRun
    /\ UNCHANGED <<idx, loaded, failed, place_files, disk, reliable, tables, writesTo,
                   attempted, okWrites, succeeded, seen, lastOp, run>>

\* The script is started again on the same directory and database.
Rerun ==
    /\ pc = "done"
    /\ run < MaxRuns
    /\ run' = run + 1
    /\ pc' = "national"
    /\ idx' = 1
    /\ loaded' = 0
    /\ failed' = 0
    /\ place_files' = 0
    /\ writesTo' = [t \in TableNames |-> <<>>]
    /\ attempted' = {}
    /\ okWrites' = 0
    /\ succeeded' = {}
    /\ seen' = {}
    /\ lastOp' = Skipped("start", OldData, "none", FALSE)
    /\ printed' = NoSummary
    /\ UNCHANGED <<disk, reliable, tables, firstRun>>

Next ==
    \/ LoadNational
    \/ NoPlaces
    \/ LoadFirstPlace
    \/ AppendPlace
    \/ Summary

NextRerun ==
    \/ Next
    \/ Rerun

\* One run of the script, any directory, any failures.
Spec == Init /\ [][Next]_vars

\* A running script takes its next step.
SpecLive == Spec /\ WF_vars(Next)

\* The script run MaxRuns times on one directory, every load succeeding.
SpecRerun == InitRerun /\ [][NextRerun]_vars

\* ---------------------------------------------------------------- claims
AllSlots ==
    {NationalSlot(i) : i \in DOMAIN files_to_load}
        \cup {PlaceSlot(k) : k \in 1 .. place_files}

\* The step just taken handled a file or an entry.
Handled == attempted' # attempted

\* C1: whenever reading or writing a file raises, failed grows by exactly
\* one, and at the summary every later file of the processing order (all
\* four entries, every places file the glob found) has been attempted.
C1_FailureIsolation ==
    [][ /\ (Handled /\ lastOp'.raises # "none") => failed' = failed + 1
        /\ pc' = "done" => AllSlots' \subseteq attempted' ]_vars

\* Places files counted as loaded in this run.
LoadedPlaces == {k \in 1 .. place_files : PlaceSlot(k) \in succeeded}

RECURSIVE SumOver(_)
SumOver(ks) ==
    IF ks = {} THEN 0
    ELSE LET k == CHOOSE x \in ks : TRUE
         IN  RecordCount(PlaceFile(k)) + SumOver(ks \ {k})

\* C2 as stated: after a run that found N >= 1 places files, tiger_places
\* holds the sum of the record counts of all N files.
C2_SumOfAllInputs ==
    (pc = "done" /\ place_files >= 1)
        => TableCount(tables[PlacesTable]) = SumOver(1 .. place_files)

\* C2 amended: after a run that found N >= 1 places files of which at
\* least one loaded, tiger_places holds the sum of the record counts of
\* the places files that loaded, whatever it held before.
C2_SumOfLoadedInputs ==
    (pc = "done" /\ place_files >= 1 /\ LoadedPlaces # {})
        => TableCount(tables[PlacesTable]) = SumOver(LoadedPlaces)

C2_Witness ==
    /\ pc = "done"
    /\ place_files >= 2
    /\ LoadedPlaces # {}
    /\ LoadedPlaces # 1 .. place_files
    /\ PlaceSlot(2) \in attempted

\* C3: in the national loop the file loaded is decided by presence alone:
\* the .shp when it exists (the GeoJSON is then not the file read), else
\* the same-named .geojson, loaded into the entry's table and, when the
\* load succeeds, counted as one success.
C3_FileResolution ==
    [][ pc = "national" =>
          LET e == files_to_load[idx]
              shp == File(e.stem, 0, "shp")
              geojson == File(e.stem, 0, "geojson")
          IN  /\ "shp" \in seen' =>
                    /\ lastOp'.read
                    /\ lastOp'.file = shp
                    /\ lastOp'.table = e.table
              /\ ("shp" \notin seen' /\ "geojson" \in seen') =>
                    /\ lastOp'.read
                    /\ lastOp'.file = geojson
                    /\ lastOp'.table = e.table
                    /\ lastOp'.result =>
                          /\ loaded' = loaded + 1
                          /\ failed' = failed
                          /\ tables'[e.table] = <<geojson>> ]_vars

C3_Witness ==
    /\ lastOp.table \in NationalTables
    /\ seen = {"geojson"}
    /\ lastOp.file.ext = "geojson"
    /\ lastOp.result
    /\ tables[lastOp.table] = <<lastOp.file>>

\* C4: for an entry with neither file, failed grows by one, loaded stays,
\* nothing is read or written, the tables keep their contents, and the
\* loop goes on to the next entry (or to the places phase after the last).
C4_MissingEntry ==
    [][ (pc = "national" /\ seen' = {}) =>
          /\ failed' = failed + 1
          /\ loaded' = loaded
          /\ ~lastOp'.read
          /\ ~lastOp'.wrote
          /\ tables' = tables
          /\ writesTo' = writesTo
          /\ NationalSlot(idx) \in attempted'
          /\ IF idx < Len(files_to_load)
             THEN pc' = "national" /\ idx' = idx + 1
             ELSE pc' = "places" ]_vars

C4_Witness ==
    /\ lastOp.kind = "missing"
    /\ pc = "national"
    /\ tables[lastOp.table] = <<OldData>>
    /\ failed >= 1

\* C5: in a run the first write issued to a table is a replace and every
\* later one an append; appends go to tiger_places only, and a national
\* table gets at most one write.
C5_WriteModes ==
    \A t \in TableNames :
        /\ \A i \in DOMAIN writesTo[t] :
              writesTo[t][i] = IF i = 1 THEN "replace" ELSE "append"
        /\ t \in NationalTables => Len(writesTo[t]) <= 1

C5_Witness ==
    /\ Len(writesTo[PlacesTable]) >= 2
    /\ \E t \in NationalTables : Len(writesTo[t]) = 1

\* C6: at every write the dataset declares EPSG:4326: a source without a
\* CRS was assigned it, a source in another CRS was reprojected, a WGS84
\* source is written unchanged.
C6_WrittenInWGS84 ==
    lastOp.wrote =>
        /\ lastOp.outCrs = WGS84
        /\ lastOp.srcCrs = NoCrs => lastOp.crsStep = "set_crs"
        /\ lastOp.srcCrs = NAD83 => lastOp.crsStep = "to_crs"
        /\ lastOp.srcCrs = WGS84 => lastOp.crsStep = "unchanged"

\* C7: whatever files exist and whatever reads and writes raise, the run
\* reaches the summary, which prints the counters.
C7_SummaryReached ==
    <>(pc = "done" /\ printed = [loaded |-> loaded, failed |-> failed])

C7_Witness ==
    /\ pc = "done"
    /\ printed = [loaded |-> loaded, failed |-> failed]
    /\ lastOp.raises # "none"
    /\ failed >= 2

\* C8: in load_geographic_file a missing companion only warns: the read
\* is attempted, the result is True exactly when nothing raised, and a
\* GeoJSON input is neither checked nor warned about.
C8_CompanionCheckWarnsOnly ==
    lastOp.kind = "load" =>
        /\ lastOp.read
        /\ lastOp.result = (lastOp.raises = "none")
        /\ lastOp.checked = (lastOp.file.ext = "shp")
        /\ lastOp.warned => lastOp.file.ext = "shp"

C8_Witness ==
    /\ lastOp.kind = "load"
    /\ lastOp.warned
    /\ lastOp.read
    /\ lastOp.result

\* C9: at the summary loaded + failed is 4 plus the number of places
\* files found, and loaded is the number of writes that completed.
C9_Accounting ==
    pc = "done" =>
        /\ printed.loaded + printed.failed = Len(files_to_load) + place_files
        /\ printed.loaded = okWrites

\* C10: on the same files, every load succeeding, a second run leaves
\* every table with the records the first run left.
C10_RerunIdempotent ==
    (pc = "done" /\ run > 1) => tables = firstRun.tables

C10_Witness ==
    /\ pc = "done"
    /\ run = 2
    /\ place_files >= 2
    /\ Len(tables[PlacesTable]) = place_files
    /\ \E t \in NationalTables : tables[t] # <<OldData>>

====
